---- MODULE Spec2Model ----
(***************************************************************************)
(* A model of pytmm: the tile merger of pytmm/merge.py and the `merge`      *)
(* command of pytmm/cli.py.                                                 *)
(*                                                                          *)
(* Images are records [size |-> <<w, h>>, px |-> pixels], pixels a function *)
(* from the coordinates (x, y), 0 <= x < w, 0 <= y < h, to RGBA tuples.     *)
(* The Pillow calls the code makes (Image.open, Image.new, Image.copy,      *)
(* Image.paste, Image.close, Image.save) are modelled by what they do to    *)
(* such records; a Python call returns a record [err, val], err the name of *)
(* the exception it raised or "none".                                       *)
(***************************************************************************)
EXTENDS Integers, Sequences, FiniteSets, TLC

(***************************************************************************)
(* Bounds of the model.                                                     *)
(***************************************************************************)
MaxFiles == 3
MaxDim == 3
MaxCols == 2
MaxCount == 7

(***************************************************************************)
(* Python values.                                                           *)
(***************************************************************************)
Ok(v) == [err |-> "none", val |-> v]

Raise(kind) == [err |-> kind, val |-> <<>>]

\* An exception that carries a file name (OSError.filename).
RaiseFile(kind, filename) == [err |-> kind, val |-> filename]

Max(S) == CHOOSE m \in S : \A n \in S : n <= m

Min2(a, b) == IF a <= b THEN a ELSE b

Max2(a, b) == IF a >= b THEN a ELSE b

Transparent == <<0, 0, 0, 0>>

Coords(size) == (0..(size[1] - 1)) \X (0..(size[2] - 1))

\* The pixel of the picture `id` at (x, y): opaque, and different from every
\* other pixel of every picture.
Pixel(id, x, y) == <<id, x, y, 255>>

Picture(id, size) ==
    [size |-> size, px |-> [p \in Coords(size) |-> Pixel(id, p[1], p[2])]]

\* Image.new("RGBA", size, (0, 0, 0, 0)): Pillow refuses a negative size.
ImageNew(size) ==
    IF size[1] < 0 \/ size[2] < 0
    THEN Raise("ValueError")
    ELSE Ok([size |-> size, px |-> [p \in Coords(size) |-> Transparent]])

\* Image.paste(im, box) of an image into an image, without a mask. A 2-tuple
\* box is the upper left corner and is completed with the size of im; the
\* region of a 4-tuple box (left, upper, right, lower) must have the size of
\* im ("images do not match"). The region is clipped to the destination.
Paste(dst, im, box) ==
    LET box4 == IF Len(box) = 2
                THEN <<box[1], box[2], box[1] + im.size[1], box[2] + im.size[2]>>
                ELSE box
        x0 == box4[1]
        y0 == box4[2]
    IN IF box4[3] - x0 # im.size[1] \/ box4[4] - y0 # im.size[2]
       THEN Raise("ValueError")
       ELSE Ok([dst EXCEPT !.px =
                [p \in Coords(dst.size) |->
                    IF /\ x0 <= p[1] /\ p[1] < box4[3]
                       /\ y0 <= p[2] /\ p[2] < box4[4]
                    THEN im.px[<<p[1] - x0, p[2] - y0>>]
                    ELSE dst.px[p]]])

(***************************************************************************)
(* merge.py: the sizing functions.                                          *)
(***************************************************************************)
\* max_xys, had it taken the first size for the largest.
max_xys_first(sizes) ==
    IF sizes = <<>>
    THEN Raise("IndexError")
    ELSE Ok(sizes[1])

\* Lines 29-30: xys = (*zip(*sizes),); max(xys[0]), max(xys[1]). With no
\* size, xys is the empty tuple and xys[0] raises IndexError.
max_xys(sizes) ==
    IF sizes = <<>>
    THEN Raise("IndexError")
    ELSE Ok(<<Max({sizes[k][1] : k \in 1..Len(sizes)}),
              Max({sizes[k][2] : k \in 1..Len(sizes)})>>)

\* _determine_tile_size over images that are already decoded.
determine_tile_size(images) ==
    max_xys([k \in 1..Len(images) |-> images[k].size])

\* _determine_final_size, had it rounded the row count up.
determine_final_size_ceil(tile_size, column_count, tile_count) ==
    IF column_count = 0
    THEN Raise("ZeroDivisionError")
    ELSE Ok(<<tile_size[1] * Min2(tile_count, column_count),
              Max2(1, (tile_count + column_count - 1) \div column_count)
                  * tile_size[2]>>)

\* _determine_final_size; // is floor division, and raises on a zero divisor.
determine_final_size(tile_size, column_count, tile_count) ==
    LET w_unit == tile_size[1]
        h_unit == tile_size[2]
        tileset_width == w_unit * Min2(tile_count, column_count)
    IN IF column_count = 0
       THEN Raise("ZeroDivisionError")
       ELSE LET row_count == Max2(1, tile_count \div column_count)
                tileset_height == row_count * h_unit
            IN Ok(<<tileset_width, tileset_height>>)

\* resize_and_centre: the box handed to paste is (w_offset, h_offset,
\* image_w, image_h), a 4-tuple.
resize_and_centre(image, size) ==
    LET copy_canvas == ImageNew(size)
        image_w == image.size[1]
        image_h == image.size[2]
        canvas_w == size[1]
        canvas_h == size[2]
        space_w == canvas_w - image_w
        space_h == canvas_h - image_h
        w_offset == space_w \div 2
        h_offset == space_h \div 2
    IN IF copy_canvas.err # "none"
       THEN copy_canvas
       ELSE Paste(copy_canvas.val, image, <<w_offset, h_offset, image_w, image_h>>)

\* The centre-padded form of an image: the image unscaled in the middle of a
\* transparent canvas of the given size.
CentrePadded(image, size) ==
    LET w_offset == (size[1] - image.size[1]) \div 2
        h_offset == (size[2] - image.size[2]) \div 2
    IN [size |-> size,
        px |-> [p \in Coords(size) |->
                  IF /\ w_offset <= p[1] /\ p[1] < w_offset + image.size[1]
                     /\ h_offset <= p[2] /\ p[2] < h_offset + image.size[2]
                  THEN image.px[<<p[1] - w_offset, p[2] - h_offset>>]
                  ELSE Transparent]]

(***************************************************************************)
(* Paths and the files on disk. A path is absolute or relative to the       *)
(* working directory; every file of the model lives in the working          *)
(* directory and is named after what it holds.                              *)
(***************************************************************************)
Cwd == <<"work">>

FileName(stem, size) == [stem |-> stem, w |-> size[1], h |-> size[2]]

RelPath(file) == [abs |-> FALSE, dir |-> <<>>, file |-> file]

AbsPath(file) == [abs |-> TRUE, dir |-> Cwd, file |-> file]

NoPath == RelPath(FileName("", <<0, 0>>))

\* abspath, had it left the path as given.
abspath_identity(path) == path

\* os.path.abspath: a relative path is joined to the working directory.
abspath(path) ==
    IF path.abs THEN path ELSE [abs |-> TRUE, dir |-> Cwd \o path.dir, file |-> path.file]

\* The sizes of the pictures on disk: the squares up to MaxDim, one wide and
\* one tall picture.
ImageSizes ==
    {<<d, d>> : d \in 1..MaxDim} \cup {<<MaxDim, 1>>, <<1, MaxDim>>}

\* On disk: a good picture of every size, one picture whose header is good and
\* whose pixel data is cut short, and one file that is no picture at all.
\* "gone.png" is not on disk.
TruncatedFile == FileName("truncated", <<2, 2>>)

JunkFile == FileName("junk", <<0, 0>>)

GoneFile == FileName("gone", <<0, 0>>)

DiskFiles ==
    {FileName("img", sz) : sz \in ImageSizes} \cup {TruncatedFile, JunkFile}

\* The operating system resolves a relative path against the working directory.
Exists(path) ==
    /\ (IF path.abs THEN path.dir ELSE Cwd \o path.dir) = Cwd
    /\ path.file \in DiskFiles

PictureId(file) == (IF file.stem = "truncated" THEN 1000 ELSE 0) + 100 * file.w + file.h

\* Image.open, had it left the header unread until load.
ImageOpenLazyCheck(path) ==
    IF ~Exists(path)
    THEN RaiseFile("FileNotFoundError", path)
    ELSE Ok([path |-> path, size |-> <<path.file.w, path.file.h>>])

\* Image.open: opens the file and reads its header only. A missing file
\* raises FileNotFoundError with the name handed to open as its filename; a
\* file that is no picture raises UnidentifiedImageError (and is closed).
\* The pixel data is decoded later, by load.
ImageOpen(path) ==
    IF ~Exists(path)
    THEN RaiseFile("FileNotFoundError", path)
    ELSE IF path.file.stem = "junk"
         THEN Raise("UnidentifiedImageError")
         ELSE Ok([path |-> path, size |-> <<path.file.w, path.file.h>>])

\* Image.load, which Image.copy calls first: decodes the pixel data. Data
\* that is cut short raises OSError unless ImageFile.LOAD_TRUNCATED_IMAGES
\* is set, and then the rows that are missing stay blank.
ImageLoad(handle, load_truncated) ==
    LET file == handle.path.file
        whole == Picture(PictureId(file), handle.size)
    IN IF file.stem = "junk"
       THEN Raise("UnidentifiedImageError")
       ELSE IF file.stem # "truncated"
       THEN Ok(whole)
       ELSE IF ~load_truncated
            THEN Raise("OSError")
            ELSE Ok([whole EXCEPT !.px =
                        [p \in Coords(handle.size) |->
                            IF p[2] = 0 THEN whole.px[p] ELSE Transparent]])

(***************************************************************************)
(* The state of one run of `pytmm merge`.                                   *)
(***************************************************************************)
VARIABLES
    files,                  \* cli.merge: the FILES arguments, a tuple of paths
    column_count,           \* --columns
    force_truncated,        \* --force-truncated
    LOAD_TRUNCATED_IMAGES,  \* ImageFile.LOAD_TRUNCATED_IMAGES
    pc,                     \* where the run is
    i,                      \* index of the next file the generator images() opens
    image,                  \* the loop variable: <<>> or <<the image just opened>>
    opened,                 \* the source images that are open: [pass, index]
    sizes,                  \* _determine_tile_size: sizes
    tile_size,
    tileset_size,
    tileset,                \* the canvas: <<>> or <<image>>
    pasted,                 \* history: the boxes tileset.paste was called with
    error,                  \* the exception raised: [kind, filename]
    output,                 \* the file at outfile: <<>> or <<image>>
    call,                   \* a direct call of one function of merge.py
    ret                     \* and what it returned

vars == <<files, column_count, force_truncated, LOAD_TRUNCATED_IMAGES, pc, i,
          image, opened, sizes, tile_size, tileset_size, tileset, pasted,
          error, output, call, ret>>

args == <<files, column_count, force_truncated>>

NoError == [kind |-> "none", filename |-> NoPath]

Exception(r) ==
    [kind |-> r.err,
     filename |-> IF r.err = "FileNotFoundError" THEN r.val ELSE NoPath]

NoCall == [fn |-> "none"]

NoRet == Raise("not called")

\* What FILES may hold: every file of the disk by its relative path, the
\* missing file by its relative and by its absolute path, and one good picture
\* by its absolute path.
Paths ==
    {RelPath(f) : f \in DiskFiles \cup {GoneFile}}
        \cup {AbsPath(GoneFile), AbsPath(FileName("img", <<1, 1>>))}

SeqsUpTo(S, n) == UNION {[1..k -> S] : k \in 0..n}

ColumnCounts == (-1)..MaxCols

Init ==
    /\ files \in SeqsUpTo(Paths, MaxFiles)
    /\ column_count \in ColumnCounts
    /\ force_truncated \in BOOLEAN
    /\ LOAD_TRUNCATED_IMAGES = FALSE
    /\ pc = "cli"
    /\ i = 0
    /\ image = <<>>
    /\ opened = {}
    /\ sizes = <<>>
    /\ tile_size = <<0, 0>>
    /\ tileset_size = <<0, 0>>
    /\ tileset = <<>>
    /\ pasted = <<>>
    /\ error = NoError
    /\ output = <<>>
    /\ call = NoCall
    /\ ret = NoRet

\* cli.merge, lines 36-38: sets the global and calls merge_tiles, which calls
\* _generate_tileset_from_files, which makes the generator of the first pass
\* and hands it to _determine_tile_size.
CliMerge ==
    /\ pc = "cli"
    /\ LOAD_TRUNCATED_IMAGES' = force_truncated
    /\ pc' = "pass1"
    /\ UNCHANGED <<args, i, image, opened, sizes, tile_size, tileset_size,
                   tileset, pasted, error, output, call, ret>>

\* merge.py line 26, the generator of line 98: the next image of the first
\* pass is opened.
Pass1Open ==
    /\ pc = "pass1"
    /\ i < Len(files)
    /\ LET r == ImageOpen(abspath(files[i + 1]))
       IN IF r.err # "none"
          THEN /\ error' = Exception(r)
               /\ pc' = "raised"
               /\ UNCHANGED <<image, opened>>
          ELSE /\ image' = <<r.val>>
               /\ opened' = opened \cup {[pass |-> 1, index |-> i]}
               /\ pc' = "measure"
               /\ UNCHANGED error
    /\ UNCHANGED <<args, LOAD_TRUNCATED_IMAGES, i, sizes, tile_size,
                   tileset_size, tileset, pasted, output, call, ret>>

\* Lines 27-28: the size is noted and the image closed.
Pass1Measure ==
    /\ pc = "measure"
    /\ sizes' = Append(sizes, image[1].size)
    /\ opened' = opened \ {[pass |-> 1, index |-> i]}
    /\ i' = i + 1
    /\ pc' = "pass1"
    /\ UNCHANGED <<args, LOAD_TRUNCATED_IMAGES, image, tile_size, tileset_size,
                   tileset, pasted, error, output, call, ret>>

\* Lines 29-30 and 100: the generator is exhausted, the tile size returned.
Pass1Return ==
    /\ pc = "pass1"
    /\ i = Len(files)
    /\ LET r == max_xys(sizes)
       IN IF r.err # "none"
          THEN /\ error' = Exception(r)
               /\ pc' = "raised"
               /\ UNCHANGED tile_size
          ELSE /\ tile_size' = r.val
               /\ pc' = "final_size"
               /\ UNCHANGED error
    /\ UNCHANGED <<args, LOAD_TRUNCATED_IMAGES, i, image, opened, sizes,
                   tileset_size, tileset, pasted, output, call, ret>>

\* Line 101.
FinalSize ==
    /\ pc = "final_size"
    /\ LET r == determine_final_size(tile_size, column_count, Len(files))
       IN IF r.err # "none"
          THEN /\ error' = Exception(r)
               /\ pc' = "raised"
               /\ UNCHANGED tileset_size
          ELSE /\ tileset_size' = r.val
               /\ pc' = "new"
               /\ UNCHANGED error
    /\ UNCHANGED <<args, LOAD_TRUNCATED_IMAGES, i, image, opened, sizes,
                   tile_size, tileset, pasted, output, call, ret>>

\* Lines 102-103: the canvas is allocated and the generator of the second
\* pass made.
NewTileset ==
    /\ pc = "new"
    /\ LET r == ImageNew(tileset_size)
       IN IF r.err # "none"
          THEN /\ error' = Exception(r)
               /\ pc' = "raised"
               /\ UNCHANGED <<tileset, i>>
          ELSE /\ tileset' = <<r.val>>
               /\ i' = 0
               /\ pc' = "pass2"
               /\ UNCHANGED error
    /\ UNCHANGED <<args, LOAD_TRUNCATED_IMAGES, image, opened, sizes,
                   tile_size, tileset_size, pasted, output, call, ret>>

\* Line 103: the next image of the second pass is opened.
Pass2Open ==
    /\ pc = "pass2"
    /\ i < Len(files)
    /\ LET r == ImageOpen(abspath(files[i + 1]))
       IN IF r.err # "none"
          THEN /\ error' = Exception(r)
               /\ pc' = "raised"
               /\ UNCHANGED <<image, opened>>
          ELSE /\ image' = <<r.val>>
               /\ opened' = opened \cup {[pass |-> 2, index |-> i]}
               /\ pc' = "paste"
               /\ UNCHANGED error
    /\ UNCHANGED <<args, LOAD_TRUNCATED_IMAGES, i, sizes, tile_size,
                   tileset_size, tileset, pasted, output, call, ret>>

\* dst_box, had it filled the grid column by column.
dst_box_rows_first(index, columns, size) ==
    <<(index \div columns) * size[1], (index % columns) * size[2]>>

\* Lines 105-110: where to paste.
dst_box(index, columns, size) ==
    <<(index % columns) * size[1], (index \div columns) * size[2]>>

\* Lines 104-112, the body of the second loop: resize_and_centre (whose
\* image.copy() decodes the pixels), the paste into the canvas, the close.
\* An exception leaves the loop before line 112.
Pass2Paste ==
    /\ pc = "paste"
    /\ LET loaded == ImageLoad(image[1], LOAD_TRUNCATED_IMAGES)
           resized_image == IF loaded.err # "none"
                            THEN loaded
                            ELSE resize_and_centre(loaded.val, tile_size)
           box == dst_box(i, column_count, tile_size)
           r == IF resized_image.err # "none"
                THEN resized_image
                ELSE Paste(tileset[1], resized_image.val, box)
       IN IF r.err # "none"
          THEN /\ error' = Exception(r)
               /\ pc' = "raised"
               /\ UNCHANGED <<tileset, pasted, opened, i>>
          ELSE /\ tileset' = <<r.val>>
               /\ pasted' = Append(pasted, [index |-> i, box |-> box,
                                            size |-> resized_image.val.size])
               /\ opened' = opened \ {[pass |-> 2, index |-> i]}
               /\ i' = i + 1
               /\ pc' = "pass2"
               /\ UNCHANGED error
    /\ UNCHANGED <<args, LOAD_TRUNCATED_IMAGES, image, sizes, tile_size,
                   tileset_size, output, call, ret>>

\* Line 113: the generator is exhausted, the canvas returned to merge_tiles.
Pass2Return ==
    /\ pc = "pass2"
    /\ i = Len(files)
    /\ pc' = "save"
    /\ UNCHANGED <<args, LOAD_TRUNCATED_IMAGES, i, image, opened, sizes,
                   tile_size, tileset_size, tileset, pasted, error, output,
                   call, ret>>

\* Line 125.
Save ==
    /\ pc = "save"
    /\ output' = tileset
    /\ pc' = "done"
    /\ UNCHANGED <<args, LOAD_TRUNCATED_IMAGES, i, image, opened, sizes,
                   tile_size, tileset_size, tileset, pasted, error, call, ret>>

\* cli.merge, lines 39-40: FileNotFoundError becomes click.FileError with the
\* same file name; every other exception leaves merge as it is.
CliExcept ==
    /\ pc = "raised"
    /\ error' = IF error.kind = "FileNotFoundError"
                THEN [error EXCEPT !.kind = "click.FileError"]
                ELSE error
    /\ pc' = "failed"
    /\ UNCHANGED <<args, LOAD_TRUNCATED_IMAGES, i, image, opened, sizes,
                   tile_size, tileset_size, tileset, pasted, output, call, ret>>

Next ==
    \/ CliMerge
    \/ Pass1Open
    \/ Pass1Measure
    \/ Pass1Return
    \/ FinalSize
    \/ NewTileset
    \/ Pass2Open
    \/ Pass2Paste
    \/ Pass2Return
    \/ Save
    \/ CliExcept

Spec == Init /\ [][Next]_vars

(***************************************************************************)
(* Direct calls of the functions of merge.py, one call a behaviour.         *)
(***************************************************************************)
Pictures(sizeset) == {Picture(100 * sz[1] + sz[2], sz) : sz \in sizeset}

Squares(lo, hi) == (lo..hi) \X (lo..hi)

TileSizeCalls ==
    {[fn |-> "_determine_tile_size", images |-> im] :
        im \in SeqsUpTo(Pictures(ImageSizes), MaxFiles)}

FinalSizeCalls ==
    {[fn |-> "_determine_final_size", tile_size |-> ts, column_count |-> cc,
      tile_count |-> tc] :
        ts \in Squares(1, MaxDim) \cup {<<10, 10>>},
        cc \in (-MaxCols)..(2 * MaxCols),
        tc \in 0..MaxCount}

ResizeCalls ==
    {[fn |-> "resize_and_centre", image |-> im, size |-> sz] :
        im \in Pictures(Squares(1, MaxDim) \cup {<<6, 4>>}),
        sz \in Squares(0, MaxDim + 1) \cup {<<10, 10>>}}

InitCalc ==
    /\ call \in TileSizeCalls \cup FinalSizeCalls \cup ResizeCalls
    /\ ret = NoRet
    /\ files = <<>>
    /\ column_count = 1
    /\ force_truncated = FALSE
    /\ LOAD_TRUNCATED_IMAGES = FALSE
    /\ pc = "call"
    /\ i = 0
    /\ image = <<>>
    /\ opened = {}
    /\ sizes = <<>>
    /\ tile_size = <<0, 0>>
    /\ tileset_size = <<0, 0>>
    /\ tileset = <<>>
    /\ pasted = <<>>
    /\ error = NoError
    /\ output = <<>>

merge_state == <<files, column_count, force_truncated, LOAD_TRUNCATED_IMAGES,
                 i, image, opened, sizes, tile_size, tileset_size, tileset,
                 pasted, error, output>>

CallDetermineTileSize ==
    /\ pc = "call"
    /\ call.fn = "_determine_tile_size"
    /\ ret' = determine_tile_size(call.images)
    /\ pc' = "returned"
    /\ UNCHANGED <<merge_state, call>>

CallDetermineFinalSize ==
    /\ pc = "call"
    /\ call.fn = "_determine_final_size"
    /\ ret' = determine_final_size(call.tile_size, call.column_count, call.tile_count)
    /\ pc' = "returned"
    /\ UNCHANGED <<merge_state, call>>

CallResizeAndCentre ==
    /\ pc = "call"
    /\ call.fn = "resize_and_centre"
    /\ ret' = resize_and_centre(call.image, call.size)
    /\ pc' = "returned"
    /\ UNCHANGED <<merge_state, call>>

NextCalc ==
    \/ CallDetermineTileSize
    \/ CallDetermineFinalSize
    \/ CallResizeAndCentre

SpecCalc == InitCalc /\ [][NextCalc]_vars

Returned(fn) == pc = "returned" /\ call.fn = fn

(***************************************************************************)
(* The sizing functions.                                                    *)
(***************************************************************************)
\* C1: for every tile size (tw, th), columnCount >= 1 and tileCount >= 1,
\* _determine_final_size returns (tw * min(tileCount, columnCount),
\* th * max(1, tileCount div columnCount)), div rounding down; ((10,10), 4, 4)
\* and ((10,10), 4, 6) give (40,10), ((10,10), 4, 2) gives (20,10).
C1_FinalSizeFormula ==
    (Returned("_determine_final_size") /\ call.column_count >= 1 /\ call.tile_count >= 1)
        => /\ ret.err = "none"
           /\ \E q \in 0..call.tile_count :
                /\ q * call.column_count <= call.tile_count
                /\ call.tile_count < (q + 1) * call.column_count
                /\ ret.val[1] = call.tile_size[1] *
                        (IF call.tile_count < call.column_count
                         THEN call.tile_count ELSE call.column_count)
                /\ ret.val[2] = call.tile_size[2] * (IF q < 1 THEN 1 ELSE q)
           /\ (call.tile_size = <<10, 10>> /\ call.column_count = 4)
                => /\ call.tile_count = 4 => ret.val = <<40, 10>>
                   /\ call.tile_count = 6 => ret.val = <<40, 10>>
                   /\ call.tile_count = 2 => ret.val = <<20, 10>>

C1_Witness ==
    /\ Returned("_determine_final_size")
    /\ call.tile_size = <<10, 10>>
    /\ call.column_count = 4
    /\ call.tile_count = 6
    /\ ret = Ok(<<40, 10>>)

\* C3: for every non-empty sequence of images, _determine_tile_size returns
\* (W, H) with W >= every width, H >= every height, W the width of an input
\* and H the height of an input, not always of the same one.
C3_TileSizeIsMax ==
    (Returned("_determine_tile_size") /\ call.images # <<>>)
        => /\ ret.err = "none"
           /\ \A k \in 1..Len(call.images) :
                /\ call.images[k].size[1] <= ret.val[1]
                /\ call.images[k].size[2] <= ret.val[2]
           /\ \E k \in 1..Len(call.images) : call.images[k].size[1] = ret.val[1]
           /\ \E k \in 1..Len(call.images) : call.images[k].size[2] = ret.val[2]

C3_Witness ==
    /\ Returned("_determine_tile_size")
    /\ Len(call.images) = 2
    /\ call.images[1].size = <<1, MaxDim>>
    /\ call.images[2].size = <<MaxDim, 1>>
    /\ ret = Ok(<<MaxDim, MaxDim>>)

\* C6: _determine_tile_size called with no image fails with EmptyInputError.
C6_EmptyInputError ==
    (Returned("_determine_tile_size") /\ call.images = <<>>)
        => ret.err = "EmptyInputError"

\* C7: _determine_final_size called with a column count below 1 fails with
\* InvalidConfigurationError, for every tile size and tile count, and never
\* returns a size.
C7_InvalidConfigurationError ==
    (Returned("_determine_final_size") /\ call.column_count < 1)
        => ret.err = "InvalidConfigurationError"

\* C4: for a source of size (sw, sh) and a target (tw, th), tw >= sw and
\* th >= sh, resize_and_centre returns an image of size (tw, th) that shows
\* the source unchanged at ((tw - sw) div 2, (th - sh) div 2) and is
\* transparent elsewhere.
C4_CentrePad ==
    (/\ Returned("resize_and_centre")
     /\ call.size[1] >= call.image.size[1]
     /\ call.size[2] >= call.image.size[2])
        => /\ ret.err = "none"
           /\ ret.val = CentrePadded(call.image, call.size)

(***************************************************************************)
(* The merge.                                                               *)
(***************************************************************************)
Indices == 0..(Len(files) - 1)

Missing(index) == ~Exists(files[index + 1])

NotAPicture(index) == Exists(files[index + 1]) /\ files[index + 1].file.stem = "junk"

\* The decoded picture of the file at `index`, for a file that decodes.
SourcePicture(index) ==
    ImageLoad([path |-> files[index + 1],
               size |-> <<files[index + 1].file.w, files[index + 1].file.h>>],
              force_truncated).val

\* The part of an image in the rectangle of the given size at (x, y).
Crop(im, x, y, size) ==
    [size |-> size, px |-> [p \in Coords(size) |-> im.px[<<x + p[1], y + p[2]>>]]]

CellX(index) == (index % column_count) * tile_size[1]

CellY(index) == (index \div column_count) * tile_size[2]

CellInside(index) ==
    /\ 0 <= CellX(index) /\ CellX(index) + tile_size[1] <= tileset[1].size[1]
    /\ 0 <= CellY(index) /\ CellY(index) + tile_size[2] <= tileset[1].size[2]

\* C2: after a merge of N >= 1 images with columnCount >= 1, for every index
\* the grid cell at ((index mod columnCount) * tileWidth, (index div
\* columnCount) * tileHeight) lies inside the saved tileset and holds the
\* centre-padded form of the image at that index.
C2_RoundTrip ==
    pc = "done"
        => \A index \in Indices :
            /\ CellInside(index)
            /\ Crop(output[1], CellX(index), CellY(index), tile_size)
                    = CentrePadded(SourcePicture(index), tile_size)

Disjoint(a, b) ==
    \/ a.box[1] + a.size[1] <= b.box[1]
    \/ b.box[1] + b.size[1] <= a.box[1]
    \/ a.box[2] + a.size[2] <= b.box[2]
    \/ b.box[2] + b.size[2] <= a.box[2]

\* C8: in the second pass the images are pasted once each, in input order,
\* the image of index k at ((k mod columnCount) * tileWidth, (k div
\* columnCount) * tileHeight); the tile-sized rectangles of two pastes are
\* disjoint, and what a paste wrote into the canvas is still there after the
\* pastes that follow.
C8_PasteOnceInOrderDisjoint ==
    /\ \A k \in 1..Len(pasted) :
        /\ pasted[k].index = k - 1
        /\ pasted[k].size = tile_size
        /\ \E col \in 0..(column_count - 1), row \in 0..Len(files) :
            /\ k - 1 = row * column_count + col
            /\ pasted[k].box = <<col * tile_size[1], row * tile_size[2]>>
        /\ \A p \in Coords(tile_size) :
            LET at == <<pasted[k].box[1] + p[1], pasted[k].box[2] + p[2]>>
            IN at \in Coords(tileset[1].size)
                => tileset[1].px[at]
                     = resize_and_centre(SourcePicture(k - 1), tile_size).val.px[p]
    /\ \A j, k \in 1..Len(pasted) : j # k => Disjoint(pasted[j], pasted[k])
    /\ pc \in {"pass2", "paste"} => Len(pasted) = i
    /\ pc \in {"save", "done"} => Len(pasted) = Len(files)

C8_Witness ==
    /\ pc = "done"
    /\ Len(files) = 3
    /\ column_count = 2
    /\ tile_size = <<2, 2>>
    /\ sizes[2] = <<1, 1>>
    /\ pasted[2].box = <<2, 0>>
    /\ pasted[3].box = <<0, 2>>

\* C9: at most one source image is open at any time, and when the merge has
\* ended, well or not, every source image that was opened has been closed.
C9_OneOpenAllClosed ==
    /\ Cardinality(opened) <= 1
    /\ pc \in {"done", "raised", "failed"} => opened = {}

OpenErrors == {"FileNotFoundError", "click.FileError", "UnidentifiedImageError"}

DecodeErrors == {"OSError"}

\* C10: no open or decode error of an input file is raised once the canvas is
\* allocated: the first pass finds every missing or corrupt file.
C10_NoInputErrorAfterCanvas ==
    tileset # <<>> => error.kind \notin OpenErrors \cup DecodeErrors

\* C10, amended: a file that is missing or is no picture is found in the first
\* pass, before the canvas is allocated (the files on disk staying as they
\* are); pixel data that is cut short is found only in the second pass, by the
\* image.copy() of resize_and_centre, when the canvas is allocated.
C10_OpenErrorsBeforeCanvas ==
    /\ tileset # <<>> => error.kind \notin OpenErrors
    /\ error.kind \in OpenErrors => pc \in {"raised", "failed"} /\ pasted = <<>>
    /\ error.kind \in DecodeErrors => tileset # <<>> /\ ~LOAD_TRUNCATED_IMAGES

C10_Witness ==
    /\ tileset # <<>>
    /\ error.kind = "OSError"
    /\ pasted # <<>>

\* C5: a merge of a file list that holds a nonexistent path fails with
\* FileNotFoundError naming that path as it was given, and writes no output.
C5_FileNotFoundAsGiven ==
    /\ (pc \in {"raised", "failed"} /\ \E index \in Indices : Missing(index))
        => /\ error.kind = IF pc = "raised" THEN "FileNotFoundError" ELSE "click.FileError"
           /\ \E index \in Indices : Missing(index) /\ error.filename = files[index + 1]
    /\ (\E index \in Indices : Missing(index)) => pc # "done" /\ output = <<>>

FirstUnopenable(index) ==
    /\ Missing(index) \/ NotAPicture(index)
    /\ \A j \in 0..(index - 1) : ~Missing(j) /\ ~NotAPicture(j)

\* C5, amended: when the first path of the list that is missing or no picture
\* is a nonexistent path, merge_tiles fails in the first pass with
\* FileNotFoundError naming the absolute form of that path (the working
\* directory joined to a relative path), which cli.merge hands on as
\* click.FileError with the same name; when a file that is no picture comes
\* first, the failure is UnidentifiedImageError. Whenever a path is
\* nonexistent no output is written: the output is written only after both
\* passes completed without an error.
C5_FileNotFoundAbsolute ==
    /\ \A index \in Indices :
        (pc \in {"raised", "failed"} /\ FirstUnopenable(index) /\ Missing(index))
            => /\ error.kind = IF pc = "raised" THEN "FileNotFoundError"
                                                ELSE "click.FileError"
               /\ error.filename.abs
               /\ error.filename.file = files[index + 1].file
               /\ error.filename.dir = IF files[index + 1].abs
                                       THEN files[index + 1].dir
                                       ELSE Cwd \o files[index + 1].dir
               /\ tileset = <<>>
    /\ \A index \in Indices :
        (pc \in {"raised", "failed"} /\ FirstUnopenable(index) /\ NotAPicture(index))
            => error.kind = "UnidentifiedImageError"
    /\ (\E index \in Indices : Missing(index) \/ NotAPicture(index))
            => pc \in {"cli", "pass1", "measure", "raised", "failed"} /\ output = <<>>
    /\ output # <<>> => pc = "done" /\ error = NoError /\ Len(pasted) = Len(files)

C5_Witness ==
    /\ pc = "failed"
    /\ Len(files) = 2
    /\ files[2] = RelPath(GoneFile)
    /\ error = [kind |-> "click.FileError", filename |-> AbsPath(GoneFile)]
    /\ output = <<>>

====
